---- MODULE Spec2Model ----
(***************************************************************************)
(* State-machine model of src/pages/index.tsx (the Fantasy Quest page).    *)
(*                                                                         *)
(* The React component's state hooks and refs are the variables.  Each     *)
(* DOM event handler and each invocation of the streaming callback is one  *)
(* atomic action (the browser event loop is single threaded and React      *)
(* re-renders between events, so a handler's closure sees the current      *)
(* state).  The window.ai extension is the environment: it resolves the    *)
(* detection probe, invokes onStreamResult any number of times with any    *)
(* (result, error) pair while a generateText call is outstanding, and      *)
(* settles the call's promise, after which the stream is over.             *)
(*                                                                         *)
(* Free text is a sequence of tokens; string concatenation is \o.          *)
(***************************************************************************)
EXTENDS Naturals, Sequences, FiniteSets

\* ------------------------------------------------------------ bounds
\* generateText calls explored per run
MaxCalls == 2
\* result chunks explored per run, over all generateText calls
MaxChunks == 2

\* ------------------------------------------------------------ values
NULL == "null"
WindowAI == "window.ai"

StartGameText == <<"Start Game">>
SystemPrompt == <<"Start a text adventure game called Fantasy Quest ...">>

\* what the player can have typed into the input box
InputValues == {<<>>, <<"go">>}
\* content of a streamed result chunk
Chunks == {<<"a">>, <<"b">>}
\* the error argument of onStreamResult (string | null)
Errors == {NULL, "", "err"}

NoResult == [none |-> TRUE]
MessageOutput(c) == [message |-> [role |-> "assistant", content |-> c]]
\* the result argument of onStreamResult (MessageOutput | null)
Results == {NoResult} \cup {MessageOutput(c) : c \in Chunks}

\* JavaScript truthiness of a string | null
Truthy(s) == s # NULL /\ s # ""

ChatMessage(r, c) == [role |-> r, content |-> c]

InstallationToast == "window-ai-not-detected"
DetectedToast == "window-ai-detected"
StreamingFailedToast == "window.ai streaming completion failed."
GenerationFailedToast == "window.ai generation completion failed."

VARIABLES
  messages,       \* useState<ChatMessage[]>: the transcript
  inputValue,     \* useState<string>
  loading,        \* useState<boolean>
  isGameStarted,  \* useState<boolean>
  aiRef,          \* useRef<WindowAI | null>: aiRef.current
  installed,      \* environment: is the extension really installed
  probe,          \* "pending" until getWindowAI() has resolved
  toasts,         \* notifications shown so far
  calls,          \* one record per generateText call: the request sent,
                  \* the closure of handleNewMessage (messages,
                  \* userMessage, updatedMessages), the state of the call
                  \* ("streaming", "errored" once the callback has
                  \* reported an error, "resolved", "rejected"), whether
                  \* its callback has been invoked at all, and the
                  \* history of result chunks its callback has applied
  accepted        \* history: number of accepted submissions

vars == <<messages, inputValue, loading, isGameStarted, aiRef, installed,
          probe, toasts, calls, accepted>>

Last(s) == s[Len(s)]

\* ------------------------------------------------------------ pure parts
\* variant of Request: the system prompt is left out of the request
RequestWithoutPrompt(updatedMessages) == updatedMessages

\* the messages argument of generateText
Request(updatedMessages) ==
  <<ChatMessage("system", SystemPrompt)>> \o updatedMessages

\* variant of AppendResult: every chunk starts a new assistant message
AppendResultAlwaysNew(updatedMessages, result) ==
  Append(updatedMessages, ChatMessage("assistant", result.message.content))

\* the new value of the closure variable updatedMessages on a result
AppendResult(updatedMessages, result) ==
  IF Last(updatedMessages).role = "user"
  THEN Append(updatedMessages,
              ChatMessage("assistant", result.message.content))
  ELSE [index \in 1..Len(updatedMessages) |->
          IF index = Len(updatedMessages)
          THEN [updatedMessages[index] EXCEPT
                  !.content = @ \o result.message.content]
          ELSE updatedMessages[index]]

\* variant of FormRendered: the Send form is there from the first render
FormAlwaysRendered == TRUE

\* the Send form is rendered instead of the Start Game button
FormRendered == isGameStarted

\* the Send button is disabled
SendDisabled == loading

\* number of result chunks delivered so far
RECURSIVE Delivered(_)
Delivered(cs) ==
  IF cs = <<>> THEN 0 ELSE Len(cs[1].chunks) + Delivered(Tail(cs))

\* ------------------------------------------------------------ Init
Init ==
  /\ messages = <<>>
  /\ inputValue = <<>>
  /\ loading = FALSE
  /\ isGameStarted = FALSE
  /\ aiRef = NULL
  /\ installed \in BOOLEAN
  /\ probe = "pending"
  /\ toasts = {}
  /\ calls = <<>>
  /\ accepted = 0

\* ------------------------------------------------------------ actions
\* init(): aiRef.current = await getWindowAI(), then one of two toasts
InitProbe ==
  /\ probe = "pending"
  /\ probe' = "resolved"
  /\ aiRef' = IF installed THEN WindowAI ELSE NULL
  /\ toasts' = toasts \cup {IF installed THEN DetectedToast
                                         ELSE InstallationToast}
  /\ UNCHANGED <<messages, inputValue, loading, isGameStarted, installed,
                 calls, accepted>>

\* onChange of the text input
SetInputValue(v) ==
  /\ FormRendered
  /\ inputValue' = v
  /\ UNCHANGED <<messages, loading, isGameStarted, aiRef, installed, probe,
                 toasts, calls, accepted>>

\* variant of HandleNewMessage: the list sent to generateText, system prompt
\* included, is what the closure keeps and the callback writes back
HandleNewMessageStoresPrompt(messageInput) ==
  LET userMessage == ChatMessage("user", messageInput)
      updatedMessages == Request(Append(messages, userMessage))
  IN /\ Len(calls) < MaxCalls
     /\ messages' = Append(messages, userMessage)
     /\ loading' = TRUE
     /\ inputValue' = <<>>
     /\ calls' = Append(calls,
          [request |-> updatedMessages,
           messages |-> messages,
           userMessage |-> userMessage,
           updatedMessages |-> updatedMessages,
           status |-> "streaming",
           invoked |-> FALSE,
           chunks |-> <<>>])

\* handleNewMessage, up to and including the generateText call
HandleNewMessage(messageInput) ==
  LET userMessage == ChatMessage("user", messageInput)
      updatedMessages == Append(messages, userMessage)
  IN /\ Len(calls) < MaxCalls
     /\ messages' = Append(messages, userMessage)
     /\ loading' = TRUE
     /\ inputValue' = <<>>
     /\ calls' = Append(calls,
          [request |-> Request(updatedMessages),
           messages |-> messages,
           userMessage |-> userMessage,
           updatedMessages |-> updatedMessages,
           status |-> "streaming",
           invoked |-> FALSE,
           chunks |-> <<>>])

\* variant of StartGame: the aiRef.current check is missing
StartGameUnchecked ==
  /\ ~isGameStarted
  /\ HandleNewMessage(StartGameText)
  /\ isGameStarted' = TRUE
  /\ accepted' = accepted + 1
  /\ UNCHANGED <<toasts, aiRef, installed, probe>>

\* variant of StartGame: the game is marked started before the aiRef check
StartGameEager ==
  /\ ~isGameStarted
  /\ isGameStarted' = TRUE
  /\ IF aiRef = NULL
     THEN /\ toasts' = toasts \cup {InstallationToast}
          /\ UNCHANGED <<messages, inputValue, loading, calls, accepted>>
     ELSE /\ HandleNewMessage(StartGameText)
          /\ accepted' = accepted + 1
          /\ UNCHANGED toasts
  /\ UNCHANGED <<aiRef, installed, probe>>

\* click on the Start Game button
StartGame ==
  /\ ~FormRendered
  /\ IF aiRef = NULL
     THEN /\ toasts' = toasts \cup {InstallationToast}
          /\ UNCHANGED <<messages, inputValue, loading, isGameStarted,
                         calls, accepted>>
     ELSE /\ HandleNewMessage(StartGameText)
          /\ isGameStarted' = TRUE
          /\ accepted' = accepted + 1
          /\ UNCHANGED toasts
  /\ UNCHANGED <<aiRef, installed, probe>>

\* submit of the Send form
HandleSendMessage ==
  /\ FormRendered
  /\ ~SendDisabled
  /\ IF inputValue = <<>>
     THEN UNCHANGED <<messages, inputValue, loading, toasts, calls,
                      accepted>>
     ELSE IF aiRef = NULL
     THEN /\ toasts' = toasts \cup {InstallationToast}
          /\ UNCHANGED <<messages, inputValue, loading, calls, accepted>>
     ELSE /\ HandleNewMessage(inputValue)
          /\ accepted' = accepted + 1
          /\ UNCHANGED toasts
  /\ UNCHANGED <<isGameStarted, aiRef, installed, probe>>

\* variant of OnStreamResult: the result is looked at before the error, so
\* an invocation carrying both still writes the transcript
OnStreamResultResultFirst(i, result, error) ==
  /\ i \in DOMAIN calls
  /\ calls[i].status \in {"streaming", "errored"}
  /\ loading' = FALSE
  /\ IF result # NoResult
     THEN /\ Delivered(calls) < MaxChunks
          /\ LET updated == AppendResult(calls[i].updatedMessages, result)
             IN /\ messages' = updated
                /\ calls' = [calls EXCEPT
                               ![i].invoked = TRUE,
                               ![i].updatedMessages = updated,
                               ![i].chunks = Append(@, result.message.content)]
                /\ UNCHANGED toasts
     ELSE IF Truthy(error)
     THEN /\ toasts' = toasts \cup {StreamingFailedToast}
          /\ calls' = [calls EXCEPT ![i].status = "errored",
                                    ![i].invoked = TRUE]
          /\ UNCHANGED messages
     ELSE /\ calls' = [calls EXCEPT ![i].invoked = TRUE]
          /\ UNCHANGED <<messages, toasts>>
  /\ UNCHANGED <<inputValue, isGameStarted, aiRef, installed, probe,
                 accepted>>

\* one invocation of streamingOptions.onStreamResult of call i
OnStreamResult(i, result, error) ==
  /\ i \in DOMAIN calls
  /\ calls[i].status \in {"streaming", "errored"}
  /\ loading' = FALSE
  /\ IF Truthy(error)
     THEN /\ toasts' = toasts \cup {StreamingFailedToast}
          /\ calls' = [calls EXCEPT ![i].status = "errored",
                                    ![i].invoked = TRUE]
          /\ UNCHANGED messages
     ELSE IF result # NoResult
     THEN /\ Delivered(calls) < MaxChunks
          /\ LET updated == AppendResult(calls[i].updatedMessages, result)
             IN /\ messages' = updated
                /\ calls' = [calls EXCEPT
                               ![i].invoked = TRUE,
                               ![i].updatedMessages = updated,
                               ![i].chunks = Append(@, result.message.content)]
                /\ UNCHANGED toasts
     ELSE /\ calls' = [calls EXCEPT ![i].invoked = TRUE]
          /\ UNCHANGED <<messages, toasts>>
  /\ UNCHANGED <<inputValue, isGameStarted, aiRef, installed, probe,
                 accepted>>

\* the awaited generateText promise of call i fulfils: nothing follows it
GenerateTextResolved(i) ==
  /\ i \in DOMAIN calls
  /\ calls[i].status \in {"streaming", "errored"}
  /\ calls' = [calls EXCEPT ![i].status = "resolved"]
  /\ UNCHANGED <<messages, inputValue, loading, isGameStarted, aiRef,
                 installed, probe, toasts, accepted>>

\* variant of GenerateTextRejected: the catch block sends the request again
GenerateTextRejectedRetry(i) ==
  /\ i \in DOMAIN calls
  /\ calls[i].status \in {"streaming", "errored"}
  /\ Len(calls) < MaxCalls
  /\ toasts' = toasts \cup {GenerationFailedToast}
  /\ calls' = Append([calls EXCEPT ![i].status = "rejected"],
                     [calls[i] EXCEPT !.status = "streaming",
                                      !.invoked = FALSE])
  /\ UNCHANGED <<messages, inputValue, loading, isGameStarted, aiRef,
                 installed, probe, accepted>>

\* the awaited generateText promise of call i rejects: the catch block
GenerateTextRejected(i) ==
  /\ i \in DOMAIN calls
  /\ calls[i].status \in {"streaming", "errored"}
  /\ toasts' = toasts \cup {GenerationFailedToast}
  /\ calls' = [calls EXCEPT ![i].status = "rejected"]
  /\ UNCHANGED <<messages, inputValue, loading, isGameStarted, aiRef,
                 installed, probe, accepted>>

Next ==
  \/ InitProbe
  \/ \E v \in InputValues : SetInputValue(v)
  \/ StartGame
  \/ HandleSendMessage
  \/ \E i \in 1..MaxCalls, result \in Results, error \in Errors :
       OnStreamResult(i, result, error)
  \/ \E i \in 1..MaxCalls : GenerateTextResolved(i)
  \/ \E i \in 1..MaxCalls : GenerateTextRejected(i)

Spec == Init /\ [][Next]_vars

\* ------------------------------------------------------------ properties
\* call i is outstanding: its stream may still deliver callbacks
InProgress(i) == calls[i].status \in {"streaming", "errored"}

\* the step is a generateText call
IssuesCall == Len(calls') = Len(calls) + 1

RECURSIVE Concat(_)
Concat(texts) == IF texts = <<>> THEN <<>> ELSE texts[1] \o Concat(Tail(texts))

\* s is a prefix of t
IsPrefix(s, t) == Len(s) <= Len(t) /\ SubSeq(t, 1, Len(s)) = s

\* C1: a Start Game click while aiRef.current is null shows the install
\* prompt and sends no request: the step issues no generateText call and
\* leaves the transcript alone.
C1_NoRequestWithoutExtension ==
  [][(StartGame /\ aiRef = NULL) =>
       /\ InstallationToast \in toasts'
       /\ calls' = calls
       /\ messages' = messages
       /\ ~isGameStarted']_vars

\* Start Game was clicked before the probe resolved: the prompt is up and
\* nothing was sent
C1_Witness ==
  /\ probe = "pending"
  /\ InstallationToast \in toasts
  /\ calls = <<>>

\* C2: in every step the new transcript is the old one, the old one with
\* one message appended, or the old one with only the content of its final
\* assistant message extended.
C2_AppendOnly ==
  [][\/ messages' = messages
     \/ /\ Len(messages') = Len(messages) + 1
        /\ SubSeq(messages', 1, Len(messages)) = messages
     \/ /\ Len(messages') = Len(messages)
        /\ messages # <<>>
        /\ SubSeq(messages', 1, Len(messages) - 1)
             = SubSeq(messages, 1, Len(messages) - 1)
        /\ Last(messages).role = "assistant"
        /\ Last(messages').role = "assistant"
        /\ IsPrefix(Last(messages).content, Last(messages').content)]_vars

\* C3: the request of every generateText call is the system message
\* followed by the whole transcript as the call leaves it, whose last
\* element is the user message just submitted; no other element of the
\* request is a system message.
C3_RequestIsPromptPlusTranscript ==
  [][IssuesCall =>
       LET request == Last(calls').request
           submitted == IF isGameStarted THEN inputValue ELSE StartGameText
       IN /\ request = <<ChatMessage("system", SystemPrompt)>> \o messages'
          /\ \A k \in 2..Len(request) : request[k].role # "system"
          /\ messages' = Append(messages, ChatMessage("user", submitted))
          /\ Last(request) = ChatMessage("user", submitted)]_vars

\* a second request carrying the earlier exchange and the typed input
C3_Witness ==
  /\ Len(calls) = 2
  /\ Len(calls[2].request) = 4
  /\ calls[2].request[3].role = "assistant"
  /\ calls[2].request[4] = ChatMessage("user", <<"go">>)

\* C4: when the callback of the latest call, which has reported no error,
\* delivers a result chunk, the transcript becomes the transcript before
\* that submission, then its user message, then one assistant message whose
\* content is the chunks delivered so far, in order.
C4_ChunksAppendInOrder ==
  [][( /\ calls # <<>>
       /\ Len(calls') = Len(calls)
       /\ Last(calls).status = "streaming"
       /\ Last(calls').chunks # Last(calls).chunks )
     => LET c == Last(calls)
        IN /\ \E chunk \in Chunks :
                Last(calls').chunks = Append(c.chunks, chunk)
           /\ messages' =
                c.messages \o <<c.userMessage>> \o
                <<ChatMessage("assistant", Concat(Last(calls').chunks))>>]_vars

\* the latest call has streamed two different chunks into one message
C4_Witness ==
  /\ calls # <<>>
  /\ LET c == Last(calls)
     IN /\ c.status = "streaming"
        /\ Len(c.chunks) = 2
        /\ c.chunks[1] # c.chunks[2]
        /\ messages = c.messages \o <<c.userMessage>> \o
                        <<ChatMessage("assistant", c.chunks[1] \o c.chunks[2])>>

\* C5: the number of generateText calls equals the number of accepted
\* submissions at all times: no error callback and no rejection causes a
\* further call.
C5_NoRetry == Len(calls) = accepted

\* two submissions, one whose call rejected and one whose callback reported
\* an error
C5_Witness ==
  /\ accepted = 2
  /\ \E i \in DOMAIN calls : calls[i].status = "rejected"
  /\ \E i \in DOMAIN calls : calls[i].status = "errored"

\* C6: once the callback of a call has reported an error, no later
\* invocation of that call's callback changes the transcript.
C6_FailureIsTerminal ==
  [][\A i \in DOMAIN calls : \A result \in Results, error \in Errors :
       (calls[i].status = "errored" /\ OnStreamResult(i, result, error))
       => messages' = messages]_vars

\* C7: while a generateText call is outstanding no user message is
\* submitted through the Send form and no further generateText call is
\* issued.
C7_NoSubmissionWhileStreaming ==
  [][(\E i \in DOMAIN calls : InProgress(i)) =>
       /\ ~IssuesCall
       /\ ~(HandleSendMessage /\ messages' # messages)]_vars

\* C8: once every generateText call has finished, by invoking the callback
\* or by rejecting, loading is false.
C8_LoadingClearedWhenFinished ==
  ( /\ calls # <<>>
    /\ \A i \in DOMAIN calls :
         /\ ~InProgress(i)
         /\ calls[i].invoked \/ calls[i].status = "rejected" )
  => ~loading

\* C9: with the extension installed, a Start Game click starts the game
\* and sends a request, and does not show the install prompt.
C9_PromptOnlyIfAbsent ==
  [][(StartGame /\ installed) =>
       /\ InstallationToast \notin toasts'
       /\ IssuesCall
       /\ isGameStarted']_vars

\* C10: a non-empty transcript has the user message 'Start Game' at
\* index 0, the one index the render skips.
C10_HiddenMessageIsStartGame ==
  messages # <<>> => messages[1] = ChatMessage("user", StartGameText)

\* a transcript holding an assistant message and a typed message after the
\* hidden one
C10_Witness ==
  /\ Len(messages) >= 3
  /\ \E k \in 2..Len(messages) : messages[k].role = "assistant"
  /\ \E k \in 2..Len(messages) : messages[k] = ChatMessage("user", <<"go">>)

\* C11: isGameStarted never returns to false; it becomes true only in a
\* startGame call that found aiRef.current non-null and issued a request;
\* whenever it is true aiRef.current is non-null; and so no submit of the
\* Send form takes the no-extension branch of handleSendMessage.
C11_GameStartedImpliesExtension ==
  [][/\ isGameStarted => isGameStarted'
     /\ (~isGameStarted /\ isGameStarted') =>
          (StartGame /\ aiRef # NULL /\ IssuesCall)
     /\ isGameStarted' => aiRef' # NULL
     /\ ~(HandleSendMessage /\ inputValue # <<>> /\ aiRef = NULL)]_vars

\* the game is running and a non-empty input has been sent through the form
C11_Witness ==
  /\ isGameStarted
  /\ aiRef # NULL
  /\ Len(calls) = 2
  /\ calls[2].userMessage = ChatMessage("user", <<"go">>)

\* C12: the transcript holds only user and assistant messages, and every
\* assistant message is immediately preceded by a user message, so no two
\* assistant messages are adjacent.
C12_RolesAlternate ==
  \A k \in DOMAIN messages :
    /\ messages[k].role \in {"user", "assistant"}
    /\ messages[k].role = "assistant" =>
         (k > 1 /\ messages[k - 1].role = "user")

\* two exchanges, each answered by an assistant message; the first answer
\* was streamed before the second submission
C12_Witness ==
  /\ Len(messages) = 4
  /\ messages[2].role = "assistant"
  /\ messages[3].role = "user"
  /\ messages[4].role = "assistant"

\* C13: an invocation of the streaming callback that carries an error (one
\* the code's test `if (error)` sees, i.e. a non-empty string), or that
\* carries neither a result nor an error, leaves the transcript, inputValue,
\* isGameStarted and aiRef.current unchanged and leaves loading false.
C13_ErrorCallbackFrame ==
  [][\/ /\ messages' = messages
        /\ inputValue' = inputValue
        /\ isGameStarted' = isGameStarted
        /\ aiRef' = aiRef
        /\ loading' = FALSE
     \/ ~ \E i \in DOMAIN calls, result \in Results, error \in Errors :
            /\ Truthy(error) \/ result = NoResult
            /\ OnStreamResult(i, result, error)]_vars

\* the callback of the second call has reported an error and delivered
\* nothing: the transcript still ends with the typed message, loading is off
C13_Witness ==
  /\ Len(calls) = 2
  /\ calls[2].status = "errored"
  /\ calls[2].chunks = <<>>
  /\ ~loading
  /\ messages = calls[2].updatedMessages
  /\ isGameStarted

====
